---------------------------- MODULE Spec2Model ----------------------------
(***************************************************************************)
(* Model of bigtime-data (src/src/main.rs): the glyph atlas generator.     *)
(*                                                                         *)
(* Two specifications share the definitions below.                         *)
(*   Spec         the whole run of main(): argument check, font parse,     *)
(*                pass 1 (get_glyph_data per codepoint, its outline built  *)
(*                event by event), pass 2 (dense tables), pass 3 (fallback *)
(*                patch), pass 4 (three file writes).                      *)
(*   SpecOutline  one Outline fed an arbitrary bounded sequence of path    *)
(*                events (impl OutlineBuilder for Outline).                *)
(*                                                                         *)
(* Scaling.  The codepoint domain 0..=0x10FFFF is scaled to 0..CharMax:    *)
(*   0 ~ U+0000 (valid, not alphanumeric)   1 ~ 'A' (valid, alphanumeric)  *)
(*   2 ~ U+D800 (surrogate: not a char)     3 ~ U+FFFD (replacement)       *)
(*   4 ~ U+10000 (valid, alphanumeric, above the replacement character)    *)
(*   5.. ~ U+10FFFF (valid, not alphanumeric)                              *)
(* The u32 index width is scaled to 0..IndexMax.  f32 values are exact     *)
(* rationals <<n, d>> in lowest terms; the inputs are small even integers  *)
(* and the bounding boxes have power-of-two sizes, for which the f32       *)
(* operations of the source are exact.                                     *)
(***************************************************************************)
EXTENDS Integers, Sequences, FiniteSets, TLC

VARIABLES pc, dir_arg, bbox, face, u, path, pos, temp, map,
          glyph_buffer, info_buffer, metrics_buffer, replace, i, files, stdout

vars == <<pc, dir_arg, bbox, face, u, path, pos, temp, map,
          glyph_buffer, info_buffer, metrics_buffer, replace, i, files, stdout>>

(***************************************************************************)
(* Bounds of the model.                                                    *)
(***************************************************************************)
CharMax == 4

IndexMax == 15

MaxEvents == 4

(***************************************************************************)
(* f32 as exact rationals.                                                 *)
(***************************************************************************)
Abs(n) == IF n < 0 THEN -n ELSE n

RECURSIVE Gcd(_, _)
Gcd(a, b) == IF b = 0 THEN a ELSE Gcd(b, a % b)

Rat(n, d) ==
    LET g == Gcd(Abs(n), Abs(d))
        s == IF d < 0 THEN -1 ELSE 1
    IN  <<(s * n) \div g, (s * d) \div g>>

F32(n) == <<n, 1>>

RAdd(a, b) == Rat(a[1] * b[2] + b[1] * a[2], a[2] * b[2])

RSub(a, b) == Rat(a[1] * b[2] - b[1] * a[2], a[2] * b[2])

RMul(a, b) == Rat(a[1] * b[1], a[2] * b[2])

RDiv(a, b) == Rat(a[1] * b[2], a[2] * b[1])

Half == <<1, 2>>

One == <<1, 1>>

vec2(x, y) == <<x, y>>

ZERO == vec2(F32(0), F32(0))

VSub(p, q) == vec2(RSub(p[1], q[1]), RSub(p[2], q[2]))

VDiv(p, q) == vec2(RDiv(p[1], q[1]), RDiv(p[2], q[2]))

(***************************************************************************)
(* Curve (main.rs 5-43).                                                   *)
(***************************************************************************)
with_p0(self, p0) == [self EXCEPT !.p0 = p0]

with_p1(self, p1) == [self EXCEPT !.p1 = p1]

with_p2(self, p2) == [self EXCEPT !.p2 = p2]

set_line_flag_never(self) == self

set_line_flag(self) ==
    [self EXCEPT !.flags = IF self.flags % 2 = 1 THEN self.flags ELSE self.flags + 1]

zeroed == [p0 |-> ZERO, p1 |-> ZERO, p2 |-> ZERO, flags |-> 0]

(***************************************************************************)
(* impl OutlineBuilder for Outline (main.rs 73-105).  Each operation takes *)
(* the curves of the outline and yields [ok, curves]: ok = FALSE is the    *)
(* panic of an unwrap(), assert!() or panic!().                            *)
(***************************************************************************)
Last(s) == s[Len(s)]

Front(s) == SubSeq(s, 1, Len(s) - 1)

Ok(curves) == [ok |-> TRUE, curves |-> curves]

Panic(curves) == [ok |-> FALSE, curves |-> curves]

move_to(curves, x, y) == Ok(Append(curves, with_p0(zeroed, vec2(x, y))))

\* the last curve completed and no new curve started
line_to_no_stub(curves, x, y) ==
    IF curves = <<>> THEN Panic(curves)
    ELSE LET last == Last(curves)
             done == set_line_flag(
                        with_p2(
                          with_p1(last, vec2(RMul(RAdd(last.p0[1], x), Half),
                                             RMul(RAdd(last.p0[2], y), Half))),
                          vec2(x, y)))
         IN  Ok(Append(Front(curves), done))

line_to(curves, x, y) ==
    IF curves = <<>> THEN Panic(curves)
    ELSE LET last == Last(curves)
             done == set_line_flag(
                        with_p2(
                          with_p1(last, vec2(RMul(RAdd(last.p0[1], x), Half),
                                             RMul(RAdd(last.p0[2], y), Half))),
                          vec2(x, y)))
         IN  Ok(Append(Append(Front(curves), done), with_p0(zeroed, vec2(x, y))))

\* the next curve started at the control point
quad_to_stub_at_control(curves, x1, y1, x, y) ==
    IF curves = <<>> THEN Panic(curves)
    ELSE LET last == Last(curves)
             done == with_p2(with_p1(last, vec2(x1, y1)), vec2(x, y))
         IN  Ok(Append(Append(Front(curves), done), with_p0(zeroed, vec2(x1, y1))))

quad_to(curves, x1, y1, x, y) ==
    IF curves = <<>> THEN Panic(curves)
    ELSE LET last == Last(curves)
             done == with_p2(with_p1(last, vec2(x1, y1)), vec2(x, y))
         IN  Ok(Append(Append(Front(curves), done), with_p0(zeroed, vec2(x, y))))

curve_to(curves) == Panic(curves)

\* the stub left in place
close_no_pop(curves) ==
    IF curves = <<>> THEN Panic(curves)
    ELSE IF Last(curves).p1 = ZERO /\ Last(curves).p2 = ZERO
         THEN Ok(curves)
         ELSE Panic(curves)

close(curves) ==
    IF curves = <<>> THEN Panic(curves)
    ELSE IF Last(curves).p1 = ZERO /\ Last(curves).p2 = ZERO
         THEN Ok(Front(curves))
         ELSE Panic(curves)

(***************************************************************************)
(* Outline::process (main.rs 51-70).                                       *)
(***************************************************************************)
Width(r) == r.x_max - r.x_min

Height(r) == r.y_max - r.y_min

\* scaled and flipped, p0 and p2 left in place
process_curve_no_swap(curve, bbox_min, bbox_size) ==
    LET n0 == VDiv(VSub(curve.p0, bbox_min), bbox_size)
        n1 == VDiv(VSub(curve.p1, bbox_min), bbox_size)
        n2 == VDiv(VSub(curve.p2, bbox_min), bbox_size)
    IN  [curve EXCEPT !.p0 = vec2(n0[1], RSub(One, n0[2])),
                      !.p1 = vec2(n1[1], RSub(One, n1[2])),
                      !.p2 = vec2(n2[1], RSub(One, n2[2]))]

process_curve(curve, bbox_min, bbox_size) ==
    LET n0 == VDiv(VSub(curve.p0, bbox_min), bbox_size)
        n1 == VDiv(VSub(curve.p1, bbox_min), bbox_size)
        n2 == VDiv(VSub(curve.p2, bbox_min), bbox_size)
        f0 == vec2(n0[1], RSub(One, n0[2]))
        f1 == vec2(n1[1], RSub(One, n1[2]))
        f2 == vec2(n2[1], RSub(One, n2[2]))
    IN  [curve EXCEPT !.p0 = f2, !.p1 = f1, !.p2 = f0]

process(curves, r) ==
    LET bbox_min  == vec2(F32(r.x_min), F32(r.y_min))
        bbox_size == vec2(F32(Width(r)), F32(Height(r)))
    IN  [k \in 1..Len(curves) |-> process_curve(curves[k], bbox_min, bbox_size)]

(***************************************************************************)
(* The font source: path events and the paths a glyph may emit.            *)
(***************************************************************************)
Points == {<<0, 0>>, <<2, 4>>}

Pt(p) == vec2(F32(p[1]), F32(p[2]))

Ev(op, a, p) == [op |-> op, a |-> Pt(a), p |-> Pt(p)]

Events ==
    {Ev("move_to", <<0, 0>>, p) : p \in Points}
    \cup {Ev("line_to", <<0, 0>>, p) : p \in Points}
    \cup {Ev("quad_to", a, p) : a \in Points, p \in Points}
    \cup {Ev("curve_to", <<0, 0>>, <<0, 0>>), Ev("close", <<0, 0>>, <<0, 0>>)}

AllPaths == UNION {[1..n -> Events] : n \in 0..MaxEvents}

\* one contour: line, quad, line
PathTriangle ==
    << Ev("move_to", <<0, 0>>, <<0, 0>>),
       Ev("line_to", <<0, 0>>, <<4, 0>>),
       Ev("quad_to", <<4, 4>>, <<0, 4>>),
       Ev("line_to", <<0, 0>>, <<0, 0>>),
       Ev("close", <<0, 0>>, <<0, 0>>) >>

\* two contours of 3 and 4 segments
PathTwoContours ==
    << Ev("move_to", <<0, 0>>, <<0, 0>>),
       Ev("line_to", <<0, 0>>, <<4, 0>>),
       Ev("line_to", <<0, 0>>, <<4, 4>>),
       Ev("line_to", <<0, 0>>, <<0, 0>>),
       Ev("close", <<0, 0>>, <<0, 0>>),
       Ev("move_to", <<0, 0>>, <<2, 2>>),
       Ev("quad_to", <<4, 2>>, <<4, 4>>),
       Ev("line_to", <<0, 0>>, <<2, 4>>),
       Ev("quad_to", <<0, 4>>, <<0, 2>>),
       Ev("line_to", <<0, 0>>, <<2, 2>>),
       Ev("close", <<0, 0>>, <<0, 0>>) >>

\* a cubic segment
PathCubic ==
    << Ev("move_to", <<0, 0>>, <<0, 0>>),
       Ev("curve_to", <<0, 0>>, <<0, 0>>) >>

\* one contour without a segment: an outline of no curves
PathDot ==
    << Ev("move_to", <<0, 0>>, <<2, 2>>),
       Ev("close", <<0, 0>>, <<0, 0>>) >>

(***************************************************************************)
(* ttf_parser::Face as main() uses it.  A glyph is what the face answers   *)
(* for one char: glyph_index (index), glyph_hor_advance (has_advance,      *)
(* advance) and the events outline_glyph emits (path; <<>> when            *)
(* outline_glyph yields None).  face[c].read is FALSE until pass 1 has     *)
(* asked the face about c.                                                 *)
(***************************************************************************)
\* <<advance, path>> of the glyphs that have an index and an advance
GlyphShapes ==
    { <<1, <<>>>>, <<2, PathDot>>, <<1, PathTriangle>>, <<2, PathTriangle>>,
      <<2, PathTwoContours>>, <<1, PathCubic>> }

Glyph(index, has_advance, advance, p) ==
    [read |-> TRUE, index |-> index, has_advance |-> has_advance,
     advance |-> advance, path |-> p]

Unread ==
    [read |-> FALSE, index |-> FALSE, has_advance |-> FALSE,
     advance |-> 0, path |-> <<>>]

Glyphs ==
    {Glyph(FALSE, FALSE, 0, <<>>), Glyph(TRUE, FALSE, 0, <<>>)}
    \cup {Glyph(TRUE, TRUE, g[1], g[2]) : g \in GlyphShapes}

BBoxes ==
    { [x_min |-> 0, y_min |-> 0, x_max |-> 4, y_max |-> 4],
      [x_min |-> -2, y_min |-> 0, x_max |-> 2, y_max |-> 2] }

(***************************************************************************)
(* RANGE, REPLACEMENT_CHARACTER, char::from_u32, char::is_alphanumeric     *)
(* (main.rs 153-156, 176, 191, 197), scaled as described at the top.       *)
(***************************************************************************)
RANGE == 0..CharMax

REPLACEMENT_CHARACTER == 3

Surrogates == {2}

Alphanumerics == {1, 4}

\* every u32 of the range taken for a char
from_u32_unchecked(n) == [some |-> TRUE, c |-> n]

from_u32(n) == [some |-> n \notin Surrogates, c |-> n]

is_alphanumeric(c) == c \in Alphanumerics

(***************************************************************************)
(* Metrics, GlyphData, GlyphInfo (main.rs 107-143).                        *)
(***************************************************************************)
MetricsDefault == [advance |-> F32(0)]

GlyphInfoDefault == [start |-> 0, end |-> 0]

NoData == [some |-> FALSE, outline |-> [some |-> FALSE, curves |-> <<>>],
           metrics |-> MetricsDefault]

GlyphData(has_outline, curves, advance) ==
    [some |-> TRUE,
     outline |-> [some |-> has_outline, curves |-> curves],
     metrics |-> [advance |-> RDiv(F32(advance), F32(Width(bbox)))]]

FileNames == {"glyph_buffer.data", "info_buffer.data", "metrics_buffer.data"}

(***************************************************************************)
(* main (main.rs 158-172): the argument check and the font parse.          *)
(***************************************************************************)
DirArgs == {"missing", "not_dir", "dir"}

Init ==
    /\ pc = "args"
    /\ dir_arg \in DirArgs
    /\ bbox \in BBoxes
    /\ face = [c \in RANGE |-> Unread]
    /\ u = 0
    /\ path = <<>>
    /\ pos = 0
    /\ temp = <<>>
    /\ map = [c \in RANGE |-> NoData]
    /\ glyph_buffer = <<>>
    /\ info_buffer = <<>>
    /\ metrics_buffer = <<>>
    /\ replace = <<>>
    /\ i = 0
    /\ files = [f \in FileNames |-> "absent"]
    /\ stdout = <<>>

\* the argument used without the is_dir check
CheckArgs_no_dir_check ==
    /\ pc = "args"
    /\ pc' = IF dir_arg = "missing" THEN "exit_failure" ELSE "parse"
    /\ stdout' = IF dir_arg = "missing"
                 THEN Append(stdout, "Pass output directory as first argument")
                 ELSE stdout
    /\ UNCHANGED <<dir_arg, bbox, face, u, path, pos, temp, map, glyph_buffer,
                   info_buffer, metrics_buffer, replace, i, files>>

CheckArgs ==
    /\ pc = "args"
    /\ pc' = IF dir_arg = "dir" THEN "parse" ELSE "exit_failure"
    /\ stdout' = IF dir_arg = "missing"
                 THEN Append(stdout, "Pass output directory as first argument")
                 ELSE IF dir_arg = "not_dir"
                 THEN Append(stdout, "Argument is not a directory")
                 ELSE stdout
    /\ UNCHANGED <<dir_arg, bbox, face, u, path, pos, temp, map, glyph_buffer,
                   info_buffer, metrics_buffer, replace, i, files>>

ParseFace ==
    /\ pc = "parse"
    /\ \E parsed \in BOOLEAN : pc' = IF parsed THEN "pass1" ELSE "panicked"
    /\ UNCHANGED <<stdout, dir_arg, bbox, face, u, path, pos, temp, map, glyph_buffer,
                   info_buffer, metrics_buffer, replace, i, files>>

(***************************************************************************)
(* Pass 1 (main.rs 174-181) and get_glyph_data (main.rs 123-136).          *)
(* GetGlyphData is one iteration up to the call of outline_glyph; the      *)
(* events of a glyph with a path follow one by one, and OutlineDone is the *)
(* rest of get_glyph_data and the map.insert.                              *)
(***************************************************************************)
GetGlyphData ==
    /\ pc = "pass1"
    /\ u <= CharMax
    /\ IF ~from_u32(u).some
       THEN /\ u' = u + 1
            /\ UNCHANGED <<pc, face, path, pos, temp, map>>
       ELSE \E g \in Glyphs :
            /\ face' = [face EXCEPT ![u] = g]
            /\ IF ~g.index \/ ~g.has_advance
               THEN /\ u' = u + 1
                    /\ UNCHANGED <<pc, path, pos, temp, map>>
               ELSE IF g.path = <<>>
               THEN /\ map' = [map EXCEPT ![u] = GlyphData(FALSE, <<>>, g.advance)]
                    /\ u' = u + 1
                    /\ UNCHANGED <<pc, path, pos, temp>>
               ELSE /\ pc' = "outline"
                    /\ path' = g.path
                    /\ pos' = 0
                    /\ temp' = <<>>
                    /\ UNCHANGED <<u, map>>
    /\ UNCHANGED <<stdout, dir_arg, bbox, glyph_buffer, info_buffer, metrics_buffer,
                   replace, i, files>>

Emit(op, r) ==
    /\ pc = "outline"
    /\ pos < Len(path)
    /\ path[pos + 1].op = op
    /\ pos' = pos + 1
    /\ temp' = r.curves
    /\ pc' = IF r.ok THEN "outline" ELSE "panicked"
    /\ UNCHANGED <<stdout, dir_arg, bbox, face, u, path, map, glyph_buffer, info_buffer,
                   metrics_buffer, replace, i, files>>

Next1(s) == s[pos + 1]

MoveTo == Emit("move_to", move_to(temp, Next1(path).p[1], Next1(path).p[2]))

LineTo == Emit("line_to", line_to(temp, Next1(path).p[1], Next1(path).p[2]))

QuadTo ==
    Emit("quad_to", quad_to(temp, Next1(path).a[1], Next1(path).a[2],
                            Next1(path).p[1], Next1(path).p[2]))

CurveTo == Emit("curve_to", curve_to(temp))

Close == Emit("close", close(temp))

OutlineDone ==
    /\ pc = "outline"
    /\ pos = Len(path)
    /\ u \in RANGE
    /\ face[u].read
    /\ map' = [map EXCEPT ![u] = GlyphData(TRUE, process(temp, bbox), face[u].advance)]
    /\ u' = u + 1
    /\ pc' = "pass1"
    /\ UNCHANGED <<stdout, dir_arg, bbox, face, path, pos, temp, glyph_buffer, info_buffer,
                   metrics_buffer, replace, i, files>>

Pass1Done ==
    /\ pc = "pass1"
    /\ u > CharMax
    /\ pc' = "pass2"
    /\ u' = 0
    /\ UNCHANGED <<stdout, dir_arg, bbox, face, path, pos, temp, map, glyph_buffer,
                   info_buffer, metrics_buffer, replace, i, files>>

(***************************************************************************)
(* Pass 2 (main.rs 183-215): one iteration of the assembly loop.           *)
(* u32::try_from(len).unwrap() panics above IndexMax.  The sum             *)
(* info.start + len panics when the build checks overflow (debug profile)  *)
(* and wraps modulo IndexMax + 1 when it does not (release profile).       *)
(***************************************************************************)
At(buffer, c) == buffer[c + 1]

\* every missing char marked for fallback
should_replace_missing_always(c) == TRUE

should_replace_missing(c) == is_alphanumeric(c)

wrapping_add(a, b) == (a + b) % (IndexMax + 1)

Push(info, metrics, should_replace, curves) ==
    /\ glyph_buffer' = glyph_buffer \o curves
    /\ metrics_buffer' = Append(metrics_buffer, metrics)
    /\ info_buffer' = Append(info_buffer, info)
    /\ replace' = Append(replace, should_replace)
    /\ u' = u + 1
    /\ pc' = pc

\* info.end taken for the curve count alone
glyph_info_len(len, n) == [start |-> len, end |-> n % (IndexMax + 1)]

\* main.rs 200-201, for a buffer length and a curve count that fit the index
glyph_info(len, n) == [start |-> len, end |-> wrapping_add(len, n)]

Pass2Panic ==
    /\ pc' = "panicked"
    /\ UNCHANGED <<glyph_buffer, metrics_buffer, info_buffer, replace, u>>

\* main.rs 192-195, without the replace.push
PushDefault_noflag ==
    /\ glyph_buffer' = glyph_buffer
    /\ metrics_buffer' = Append(metrics_buffer, MetricsDefault)
    /\ info_buffer' = Append(info_buffer, GlyphInfoDefault)
    /\ replace' = replace
    /\ u' = u + 1
    /\ pc' = pc

\* main.rs 192-195: the record of a value that is not a char
PushDefault == Push(GlyphInfoDefault, MetricsDefault, FALSE, <<>>)

\* the fallback flag pushed whether or not the map holds the char
replace_flag_always(found, c) == should_replace_missing(c)

\* main.rs 209-211: the fallback flag of a char
replace_flag(found, c) == IF found THEN FALSE ELSE should_replace_missing(c)

Pass2Step ==
    /\ pc = "pass2"
    /\ u <= CharMax
    /\ IF ~from_u32(u).some
       THEN PushDefault
       ELSE IF map[u].some
       THEN IF map[u].outline.some
            THEN LET len    == Len(glyph_buffer)
                     curves == map[u].outline.curves
                 IN  IF len > IndexMax \/ Len(curves) > IndexMax
                     THEN Pass2Panic
                     ELSE \E overflow_checks \in BOOLEAN :
                          IF overflow_checks /\ len + Len(curves) > IndexMax
                          THEN Pass2Panic
                          ELSE Push(glyph_info(len, Len(curves)),
                                    map[u].metrics, replace_flag(TRUE, u), curves)
            ELSE Push([start |-> 0, end |-> 0], map[u].metrics,
                      replace_flag(TRUE, u), <<>>)
       ELSE Push(GlyphInfoDefault, MetricsDefault, replace_flag(FALSE, u), <<>>)
    /\ UNCHANGED <<stdout, dir_arg, bbox, face, path, pos, temp, map, i, files>>

\* pass 3 left out: the writes follow the assembly loop
Pass2Done_skip_patch ==
    /\ pc = "pass2"
    /\ u > CharMax
    /\ pc' = "write_glyph"
    /\ i' = 0
    /\ UNCHANGED <<stdout, dir_arg, bbox, face, u, path, pos, temp, map, glyph_buffer,
                   info_buffer, metrics_buffer, replace, files>>

Pass2Done ==
    /\ pc = "pass2"
    /\ u > CharMax
    /\ pc' = "pass3"
    /\ i' = 0
    /\ UNCHANGED <<stdout, dir_arg, bbox, face, u, path, pos, temp, map, glyph_buffer,
                   info_buffer, metrics_buffer, replace, files>>

(***************************************************************************)
(* Pass 3 (main.rs 217-222): the fallback patch, one index per step.       *)
(***************************************************************************)
\* the replacement character's record read one slot too low
patch_off_by_one(buffer, idx) ==
    [buffer EXCEPT ![idx + 1] = buffer[REPLACEMENT_CHARACTER]]

\* the eligible record exchanged with the replacement character's record
patch_swap(buffer, idx) ==
    [buffer EXCEPT ![idx + 1] = At(buffer, REPLACEMENT_CHARACTER),
                   ![REPLACEMENT_CHARACTER + 1] = buffer[idx + 1]]

patch(buffer, idx) ==
    [buffer EXCEPT ![idx + 1] = At(buffer, REPLACEMENT_CHARACTER)]

Pass3Step ==
    /\ pc = "pass3"
    /\ i < Len(replace)
    /\ IF At(replace, i)
       THEN /\ info_buffer' = patch(info_buffer, i)
            /\ metrics_buffer' = patch(metrics_buffer, i)
       ELSE UNCHANGED <<info_buffer, metrics_buffer>>
    /\ i' = i + 1
    /\ UNCHANGED <<stdout, pc, dir_arg, bbox, face, u, path, pos, temp, map, glyph_buffer,
                   replace, files>>

Pass3Done ==
    /\ pc = "pass3"
    /\ i = Len(replace)
    /\ pc' = "write_glyph"
    /\ stdout' = Append(stdout, "buffer sizes")
    /\ UNCHANGED <<dir_arg, bbox, face, u, path, pos, temp, map, glyph_buffer,
                   info_buffer, metrics_buffer, replace, i, files>>

(***************************************************************************)
(* Pass 4 (main.rs 231-235) and write_buffer_data (main.rs 145-151).       *)
(* File::create(..).unwrap() may panic before the file exists; write_all   *)
(* may panic after it was created.                                         *)
(***************************************************************************)
WriteOutcomes == {"create_failed", "write_failed", "written"}

write_buffer_data(file_name, outcome) ==
    IF outcome = "create_failed" THEN files
    ELSE IF outcome = "write_failed" THEN [files EXCEPT ![file_name] = "partial"]
    ELSE [files EXCEPT ![file_name] = "complete"]

\* the result of write_buffer_data ignored instead of unwrapped
WriteStep_no_unwrap(at, file_name, then) ==
    /\ pc = at
    /\ \E outcome \in WriteOutcomes :
        /\ files' = write_buffer_data(file_name, outcome)
        /\ pc' = then
    /\ UNCHANGED <<stdout, dir_arg, bbox, face, u, path, pos, temp, map, glyph_buffer,
                   info_buffer, metrics_buffer, replace, i>>

WriteStep(at, file_name, then) ==
    /\ pc = at
    /\ \E outcome \in WriteOutcomes :
        /\ files' = write_buffer_data(file_name, outcome)
        /\ pc' = IF outcome = "written" THEN then ELSE "panicked"
    /\ UNCHANGED <<stdout, dir_arg, bbox, face, u, path, pos, temp, map, glyph_buffer,
                   info_buffer, metrics_buffer, replace, i>>

WriteGlyphBuffer == WriteStep("write_glyph", "glyph_buffer.data", "write_info")

WriteInfoBuffer == WriteStep("write_info", "info_buffer.data", "write_metrics")

WriteMetricsBuffer == WriteStep("write_metrics", "metrics_buffer.data", "exit_success")

Next ==
    \/ CheckArgs
    \/ ParseFace
    \/ GetGlyphData
    \/ MoveTo
    \/ LineTo
    \/ QuadTo
    \/ CurveTo
    \/ Close
    \/ OutlineDone
    \/ Pass1Done
    \/ Pass2Step
    \/ Pass2Done
    \/ Pass3Step
    \/ Pass3Done
    \/ WriteGlyphBuffer
    \/ WriteInfoBuffer
    \/ WriteMetricsBuffer

Spec == Init /\ [][Next]_vars

(***************************************************************************)
(* SpecOutline: outline_glyph feeding one Outline an arbitrary path.       *)
(***************************************************************************)
OutlinePaths == AllPaths \cup {PathTriangle, PathTwoContours}

InitOutline ==
    /\ pc = "outline"
    /\ dir_arg = "dir"
    /\ bbox = [x_min |-> 0, y_min |-> 0, x_max |-> 4, y_max |-> 4]
    /\ face = [c \in RANGE |-> Unread]
    /\ u = 0
    /\ path \in OutlinePaths
    /\ pos = 0
    /\ temp = <<>>
    /\ map = [c \in RANGE |-> NoData]
    /\ glyph_buffer = <<>>
    /\ info_buffer = <<>>
    /\ metrics_buffer = <<>>
    /\ replace = <<>>
    /\ i = 0
    /\ files = [f \in FileNames |-> "absent"]
    /\ stdout = <<>>

NextOutline ==
    \/ MoveTo
    \/ LineTo
    \/ QuadTo
    \/ CurveTo
    \/ Close

SpecOutline == InitOutline /\ [][NextOutline]_vars

(***************************************************************************)
(* Properties.                                                             *)
(***************************************************************************)
Chars == RANGE \ Surrogates

\* pass 3 has run to its end: the tables are the ones pass 4 writes
TablesFinal == Len(replace) = CharMax + 1 /\ i = CharMax + 1

\* the char is not in the map: get_glyph_data yielded nothing for it
Absent(c) == ~map[c].some

OwnOutline(c) == map[c].some /\ map[c].outline.some

\* C1: in the final tables every alphanumeric char absent from the font has
\* exactly the info and metrics records of the replacement character, below
\* and above it in codepoint order.
C1Fallback ==
    TablesFinal =>
        \A c \in Chars \cap Alphanumerics :
            Absent(c) =>
                /\ At(info_buffer, c) = At(info_buffer, REPLACEMENT_CHARACTER)
                /\ At(metrics_buffer, c) = At(metrics_buffer, REPLACEMENT_CHARACTER)

C1Witness ==
    /\ TablesFinal
    /\ Absent(1) /\ Absent(4)
    /\ OwnOutline(REPLACEMENT_CHARACTER)
    /\ At(info_buffer, 1) = At(info_buffer, REPLACEMENT_CHARACTER)
    /\ At(info_buffer, 4) = At(info_buffer, REPLACEMENT_CHARACTER)
    /\ At(info_buffer, 4).start < At(info_buffer, 4).end
    /\ At(metrics_buffer, 4) # MetricsDefault

\* C7: a surrogate-range value has info [0,0) and advance 0.0 from the moment
\* pass 2 pushes its record to the end of the run, and is never marked for
\* the fallback pass, whatever the replacement character's record is.
C7Surrogates ==
    \A s \in Surrogates :
        s < Len(info_buffer) =>
            /\ At(info_buffer, s) = [start |-> 0, end |-> 0]
            /\ At(metrics_buffer, s) = [advance |-> F32(0)]
            /\ s < Len(replace) /\ ~At(replace, s)

C7Witness ==
    /\ TablesFinal
    /\ OwnOutline(REPLACEMENT_CHARACTER)
    /\ At(info_buffer, REPLACEMENT_CHARACTER).start > 0
    /\ At(replace, 1)
    /\ At(info_buffer, 1) = At(info_buffer, REPLACEMENT_CHARACTER)
    /\ At(info_buffer, 2) = [start |-> 0, end |-> 0]

\* C8: in the final tables every char that is not alphanumeric and is absent
\* from the font has info [0,0) and advance 0.0, whatever the replacement
\* character's record is.
C8NoFallback ==
    TablesFinal =>
        \A c \in Chars \ Alphanumerics :
            Absent(c) =>
                /\ At(info_buffer, c) = [start |-> 0, end |-> 0]
                /\ At(metrics_buffer, c) = [advance |-> F32(0)]

C8Witness ==
    /\ TablesFinal
    /\ Absent(0)
    /\ face[0].read /\ ~face[0].index
    /\ OwnOutline(REPLACEMENT_CHARACTER)
    /\ At(info_buffer, REPLACEMENT_CHARACTER).end > At(info_buffer, REPLACEMENT_CHARACTER).start
    /\ At(replace, 4)
    /\ At(info_buffer, 0) = [start |-> 0, end |-> 0]

\* C9: the tables are dense.  The info buffer, the metrics buffer and the
\* fallback list always have one length; while pass 2 is about to process
\* value u that length is u (so u + 1 after it); from pass 3 on it is the
\* size of the domain; and the entry at index c is the one of codepoint c:
\* the fallback flag at c is set exactly for an alphanumeric char c absent
\* from the font.
C9Dense ==
    /\ Len(info_buffer) = Len(metrics_buffer)
    /\ Len(info_buffer) = Len(replace)
    /\ pc = "pass2" => Len(info_buffer) = u
    /\ pc \in {"pass3", "write_glyph", "write_info", "write_metrics", "exit_success"}
          => Len(info_buffer) = CharMax + 1
    /\ \A c \in RANGE :
          c < Len(replace) =>
              (At(replace, c) <=> (c \in Chars \cap Alphanumerics /\ Absent(c)))

C9Witness ==
    /\ pc = "exit_success"
    /\ Len(info_buffer) = CharMax + 1
    /\ At(replace, 4) /\ ~At(replace, 1)
    /\ OwnOutline(1)

(***************************************************************************)
(* The curve buffer as the claims see it.                                  *)
(***************************************************************************)
CurveCount(c) == IF OwnOutline(c) THEN Len(map[c].outline.curves) ELSE 0

RECURSIVE LenBefore(_)
\* the length of the curve buffer before pass 2 processes codepoint c
LenBefore(c) == IF c = 0 THEN 0 ELSE LenBefore(c - 1) + CurveCount(c - 1)

Info(c) == At(info_buffer, c)

NonEmpty(c) == Info(c).start # Info(c).end

\* C2 as stated: every range of the final info buffer is empty or a valid
\* slice of the final curve buffer, the non-empty ranges of two distinct
\* codepoints do not overlap and are in codepoint-ascending order, and each
\* starts where the curve buffer ended before its codepoint was processed.
C2Ranges ==
    TablesFinal =>
        /\ \A c \in RANGE :
              \/ Info(c).start = Info(c).end
              \/ Info(c).start <= Info(c).end /\ Info(c).end <= Len(glyph_buffer)
        /\ \A c, d \in RANGE :
              (c < d /\ NonEmpty(c) /\ NonEmpty(d)) => Info(c).end <= Info(d).start
        /\ \A c \in RANGE : NonEmpty(c) => Info(c).start = LenBefore(c)

\* C2 amended: in the final tables the record of a char with an outline of
\* its own starts where the curve buffer ended before the char was
\* processed, the buffer holds the char's curves from there on, these slices
\* are in codepoint-ascending order without overlap, and end is start plus
\* the curve count in the arithmetic of the index width; every other record
\* is [0,0) or a fallback copy of the replacement character's record.
C2OwnRanges ==
    TablesFinal =>
        /\ Len(glyph_buffer) = LenBefore(CharMax + 1)
        /\ \A c \in RANGE :
              IF OwnOutline(c)
              THEN /\ Info(c).start = LenBefore(c)
                   /\ SubSeq(glyph_buffer, Info(c).start + 1,
                             Info(c).start + CurveCount(c)) = map[c].outline.curves
                   /\ Info(c).start + CurveCount(c) <= Len(glyph_buffer)
                   /\ Info(c).end = (Info(c).start + CurveCount(c)) % (IndexMax + 1)
                   /\ \A d \in RANGE :
                         (c < d /\ OwnOutline(d))
                            => Info(c).start + CurveCount(c) <= Info(d).start
              ELSE \/ Info(c) = [start |-> 0, end |-> 0]
                   \/ /\ c \in Alphanumerics /\ Absent(c)
                      /\ Info(c) = Info(REPLACEMENT_CHARACTER)

C2Witness ==
    /\ TablesFinal
    /\ OwnOutline(1) /\ OwnOutline(REPLACEMENT_CHARACTER)
    /\ CurveCount(1) > 0 /\ CurveCount(REPLACEMENT_CHARACTER) > 0
    /\ Info(1).end = Info(REPLACEMENT_CHARACTER).start
    /\ Info(REPLACEMENT_CHARACTER).start < Info(REPLACEMENT_CHARACTER).end
    /\ Absent(4) /\ Info(4) = Info(REPLACEMENT_CHARACTER)

(***************************************************************************)
(* Paths as the claims see them.                                           *)
(***************************************************************************)
Segments == {"line_to", "quad_to"}

RECURSIVE WellFormedFrom(_, _, _)
\* events k.. of p are sub-paths move_to, segments, close
WellFormedFrom(p, k, open) ==
    IF k > Len(p) THEN ~open
    ELSE CASE p[k].op = "move_to" -> ~open /\ WellFormedFrom(p, k + 1, TRUE)
           [] p[k].op \in Segments -> open /\ WellFormedFrom(p, k + 1, TRUE)
           [] p[k].op = "close" -> open /\ WellFormedFrom(p, k + 1, FALSE)
           [] OTHER -> FALSE

WellFormed(p) == WellFormedFrom(p, 1, FALSE)

SegIndexes(p) == {k \in 1..Len(p) : p[k].op \in Segments}

SegCount(p) == Cardinality(SegIndexes(p))

LastSeg(p) == CHOOSE k \in SegIndexes(p) : \A j \in SegIndexes(p) : j <= k

IsMid(m, p, q) == \A k \in 1..2 : RAdd(m[k], m[k]) = RAdd(p[k], q[k])

\* curve is the completed curve of segment event e drawn from point p0
Completes(curve, e, p0) ==
    /\ curve.p0 = p0
    /\ curve.p2 = e.p
    /\ IF e.op = "line_to"
       THEN IsMid(curve.p1, p0, e.p) /\ curve.flags = 1
       ELSE curve.p1 = e.a /\ curve.flags = 0

RECURSIVE PendingTags(_, _)
\* for each curve of the outline after k events, whether it is a stub: a
\* curve pushed by move_to, line_to or quad_to that no segment has completed
PendingTags(p, k) ==
    IF k = 0 THEN <<>>
    ELSE LET t == PendingTags(p, k - 1)
         IN  CASE p[k].op = "move_to" -> Append(t, TRUE)
               [] p[k].op \in Segments -> Append(Append(Front(t), FALSE), TRUE)
               [] p[k].op = "close" -> Front(t)
               [] OTHER -> t

\* C4 as stated: close() removes the last curve only when it is a stub; when
\* the last curve is a completed curve, or the outline is empty, close()
\* aborts the run and removes nothing.
C4CloseOnlyStub ==
    [][ (pc = "outline" /\ pos' = pos + 1 /\ path[pos'].op = "close") =>
            LET t    == PendingTags(path, pos)
                stub == t # <<>> /\ Last(t)
            IN  /\ temp' # temp => stub
                /\ ~stub => (pc' = "panicked" /\ temp' = temp) ]_vars

(***************************************************************************)
(* The three output files.                                                 *)
(***************************************************************************)
Ended == pc \in {"exit_success", "exit_failure", "panicked"}

\* C5 as stated: at process end either all three files have been written
\* completely or no file has been produced.
C5AllOrNothing ==
    Ended =>
        \/ \A f \in FileNames : files[f] = "complete"
        \/ \A f \in FileNames : files[f] = "absent"

\* C5 amended: a failed write ends the run at once.  The run exits with
\* success only when all three files are complete, and with the failure
\* code only with no file produced; a file is created only after every file
\* before it (glyph, info, metrics in this order) was written completely;
\* an incomplete file exists only in a run that panicked, and it is the last
\* file produced.  Files written before the failure remain.
C5FailStop ==
    /\ pc = "exit_success" => \A f \in FileNames : files[f] = "complete"
    /\ pc = "exit_failure" => \A f \in FileNames : files[f] = "absent"
    /\ files["info_buffer.data"] # "absent" => files["glyph_buffer.data"] = "complete"
    /\ files["metrics_buffer.data"] # "absent" => files["info_buffer.data"] = "complete"
    /\ (\E f \in FileNames : files[f] = "partial") => pc = "panicked"
    /\ (\E f \in FileNames : files[f] # "absent") =>
          (TablesFinal /\ pc \in {"write_info", "write_metrics", "exit_success", "panicked"})

C5Witness ==
    /\ pc = "panicked"
    /\ files["glyph_buffer.data"] = "complete"
    /\ files["info_buffer.data"] = "partial"
    /\ files["metrics_buffer.data"] = "absent"

(***************************************************************************)
(* The records of chars the font has a glyph for.                          *)
(***************************************************************************)
OwnMetrics(c) == [advance |-> Rat(face[c].advance, bbox.x_max - bbox.x_min)]

\* C6 as stated: every char whose glyph-index lookup succeeds is not marked
\* for fallback and keeps its own record in the final tables: info is
\* [start,end) of its appended curves when it has an outline and [0,0) when
\* it has none, metrics is its own normalized advance.
C6GlyphKept ==
    TablesFinal =>
        \A c \in Chars :
            (face[c].read /\ face[c].index) =>
                /\ ~At(replace, c)
                /\ face[c].has_advance => At(metrics_buffer, c) = OwnMetrics(c)
                /\ IF face[c].path # <<>>
                   THEN /\ Info(c).start <= Info(c).end
                        /\ SubSeq(glyph_buffer, Info(c).start + 1, Info(c).end)
                              = map[c].outline.curves
                   ELSE Info(c) = [start |-> 0, end |-> 0]

\* C6 amended: every char for which both the glyph-index lookup and the
\* horizontal-advance lookup succeed is not marked for fallback and keeps its
\* own record in the final tables, alphanumeric or not: metrics is its own
\* normalized advance; info is [0,0) when the glyph has no outline; when it
\* has one, the curve buffer holds its curves from info.start on and
\* info.end is info.start plus the curve count in the arithmetic of the
\* index width.
C6DataKept ==
    TablesFinal =>
        \A c \in Chars :
            (face[c].read /\ face[c].index /\ face[c].has_advance) =>
                /\ ~At(replace, c)
                /\ At(metrics_buffer, c) = OwnMetrics(c)
                /\ IF face[c].path # <<>>
                   THEN /\ OwnOutline(c)
                        /\ SubSeq(glyph_buffer, Info(c).start + 1,
                                  Info(c).start + CurveCount(c))
                              = map[c].outline.curves
                        /\ Info(c).start + CurveCount(c) <= Len(glyph_buffer)
                        /\ Info(c).end
                              = (Info(c).start + CurveCount(c)) % (IndexMax + 1)
                   ELSE Info(c) = [start |-> 0, end |-> 0]

C6Witness ==
    /\ TablesFinal
    /\ face[1].index /\ face[1].has_advance /\ face[1].path = PathTriangle
    /\ face[4].index /\ face[4].has_advance /\ face[4].path = <<>>
    /\ OwnOutline(REPLACEMENT_CHARACTER)
    /\ At(metrics_buffer, 1) # At(metrics_buffer, REPLACEMENT_CHARACTER)
    /\ Info(1) = [start |-> 0, end |-> 3]
    /\ Info(4) = [start |-> 0, end |-> 0]
    /\ Info(REPLACEMENT_CHARACTER).start = 3

(***************************************************************************)
(* line_to and quad_to.                                                    *)
(***************************************************************************)
RECURSIVE LineMade(_, _)
\* for each curve of the outline after k events, whether a line_to wrote it
LineMade(p, k) ==
    IF k = 0 THEN <<>>
    ELSE LET t == LineMade(p, k - 1)
         IN  CASE p[k].op = "move_to" -> Append(t, FALSE)
               [] p[k].op = "line_to" -> Append(Append(Front(t), TRUE), FALSE)
               [] p[k].op = "quad_to" -> Append(t, FALSE)
               [] p[k].op = "close" -> Front(t)
               [] OTHER -> t

PathFlip ==
    << Ev("move_to", <<0, 0>>, <<500, 0>>),
       Ev("line_to", <<0, 0>>, <<1000, 1000>>),
       Ev("line_to", <<0, 0>>, <<500, 0>>),
       Ev("close", <<0, 0>>, <<0, 0>>) >>

BBox1000 == [x_min |-> 0, y_min |-> 0, x_max |-> 1000, y_max |-> 1000]

InitGlyph ==
    /\ pc = "outline"
    /\ dir_arg = "dir"
    /\ bbox \in BBoxes \cup {BBox1000}
    /\ path \in OutlinePaths \cup {PathFlip}
    /\ face = [c \in RANGE |-> IF c = 0 THEN Glyph(TRUE, TRUE, 1, path) ELSE Unread]
    /\ u = 0
    /\ pos = 0
    /\ temp = <<>>
    /\ map = [c \in RANGE |-> NoData]
    /\ glyph_buffer = <<>>
    /\ info_buffer = <<>>
    /\ metrics_buffer = <<>>
    /\ replace = <<>>
    /\ i = 0
    /\ files = [f \in FileNames |-> "absent"]
    /\ stdout = <<>>

NextGlyph ==
    \/ MoveTo
    \/ LineTo
    \/ QuadTo
    \/ CurveTo
    \/ Close
    \/ OutlineDone

SpecGlyph == InitGlyph /\ [][NextGlyph]_vars

(***************************************************************************)
(* Normalization.                                                          *)
(***************************************************************************)
\* N(x,y) = ((x - bbox_min.x) / bbox_size.x, 1 - (y - bbox_min.y) / bbox_size.y)
Norm(p) ==
    LET w == bbox.x_max - bbox.x_min
        h == bbox.y_max - bbox.y_min
    IN  << Rat(p[1][1] - bbox.x_min * p[1][2], p[1][2] * w),
           Rat(p[2][2] * h - (p[2][1] - bbox.y_min * p[2][2]), p[2][2] * h) >>

\* get_glyph_data has returned the outline built in temp
Built == pc = "pass1" /\ u = 1 /\ map[0].some /\ map[0].outline.some

\* C11: normalization maps every curve (p0,p1,p2) of the built outline to
\* (N(p2),N(p1),N(p0)), N scaling against the global bounding box and then
\* flipping y, and keeps the flags, the number and the order of the curves;
\* with box min (0,0) and size (1000,1000) the point (500,0) becomes
\* (0.5,1.0).
C11Normalized ==
    Built =>
        LET cs == map[0].outline.curves
        IN  /\ Len(cs) = Len(temp)
            /\ \A k \in 1..Len(temp) :
                  /\ cs[k].p0 = Norm(temp[k].p2)
                  /\ cs[k].p1 = Norm(temp[k].p1)
                  /\ cs[k].p2 = Norm(temp[k].p0)
                  /\ cs[k].flags = temp[k].flags
            /\ (bbox = BBox1000 /\ path = PathFlip) => cs[1].p2 = <<<<1, 2>>, <<1, 1>>>>

C11Witness ==
    /\ Built
    /\ bbox = BBox1000
    /\ path = PathFlip
    /\ Len(map[0].outline.curves) = 2
    /\ temp[1].p0 = <<<<500, 1>>, <<0, 1>>>>
    /\ map[0].outline.curves[1].p2 = <<<<1, 2>>, <<1, 1>>>>
    /\ map[0].outline.curves[1].p0 = <<<<1, 1>>, <<0, 1>>>>

InUnit(x) == 0 <= x[1] /\ x[1] <= x[2]

\* C12 as stated: after normalization every coordinate of every point of
\* every curve of a built outline lies in [0,1].
C12UnitSquare ==
    Built =>
        \A k \in 1..Len(map[0].outline.curves) :
            LET c == map[0].outline.curves[k]
            IN  \A pt \in {c.p0, c.p1, c.p2} : InUnit(pt[1]) /\ InUnit(pt[2])

(***************************************************************************)
(* The run as a whole.                                                     *)
(***************************************************************************)
NoPassRun ==
    /\ \A c \in RANGE : ~face[c].read /\ ~map[c].some
    /\ u = 0 /\ i = 0 /\ pos = 0
    /\ temp = <<>>
    /\ glyph_buffer = <<>> /\ info_buffer = <<>> /\ metrics_buffer = <<>>
    /\ replace = <<>>

\* C13: when the output-directory argument is missing or names no directory,
\* the run prints one message and ends with the failure exit code; no file
\* is created and no pass (font parse, glyph build, assembly, patch) runs.
C13BadArgument ==
    dir_arg # "dir" =>
        /\ pc \in {"args", "exit_failure"}
        /\ \A f \in FileNames : files[f] = "absent"
        /\ NoPassRun
        /\ pc = "args" => stdout = <<>>
        /\ pc = "exit_failure" =>
              stdout = IF dir_arg = "missing"
                       THEN <<"Pass output directory as first argument">>
                       ELSE <<"Argument is not a directory">>

C13Witness ==
    /\ pc = "exit_failure"
    /\ dir_arg = "not_dir"
    /\ stdout = <<"Argument is not a directory">>
    /\ \A f \in FileNames : files[f] = "absent"

\* pass 1 has asked the face about every char and built every outline
Pass1Complete ==
    /\ pc \notin {"args", "parse", "pass1", "outline"} \/ (pc = "pass1" /\ u > CharMax)
    /\ \A c \in Chars :
          /\ face[c].read
          /\ (face[c].index /\ face[c].has_advance) => map[c].some

\* C14: the passes run strictly in order.  No info, metrics or fallback
\* entry exists before pass 1 has built the glyph data of every codepoint;
\* no record is patched before every codepoint of the domain, U+FFFD
\* included, has its pass-2 record; no output file exists before every
\* fallback-eligible record has been patched; so a run that panics in
\* passes 1-3 leaves no output file.
C14Ordered ==
    /\ []( /\ (info_buffer # <<>> \/ metrics_buffer # <<>> \/ replace # <<>>
                 \/ glyph_buffer # <<>>) => Pass1Complete
           /\ i > 0 => Len(info_buffer) = CharMax + 1
           /\ (\E f \in FileNames : files[f] # "absent") =>
                 /\ TablesFinal
                 /\ \A c \in RANGE :
                       At(replace, c) =>
                          /\ At(info_buffer, c) = At(info_buffer, REPLACEMENT_CHARACTER)
                          /\ At(metrics_buffer, c)
                                = At(metrics_buffer, REPLACEMENT_CHARACTER)
           /\ (pc = "panicked" /\ ~TablesFinal) =>
                 \A f \in FileNames : files[f] = "absent" )
    /\ [][ (\E c \in RANGE :
               /\ c < Len(info_buffer)
               /\ \/ At(info_buffer', c) # At(info_buffer, c)
                  \/ At(metrics_buffer', c) # At(metrics_buffer, c))
           => (pc = "pass3" /\ Len(info_buffer) = CharMax + 1
                 /\ \A f \in FileNames : files[f] = "absent") ]_vars

C14Witness ==
    /\ pc = "panicked"
    /\ Pass1Complete
    /\ Len(info_buffer) > REPLACEMENT_CHARACTER
    /\ Len(info_buffer) < CharMax + 1
    /\ i = 0
    /\ \A f \in FileNames : files[f] = "absent"

\* C15 as stated: index overflow is fatal.  Every record emitted for a char
\* with an outline has start equal to the exact curve-buffer length before
\* its curves were appended and end equal to the exact length after, both
\* within the index width, so no emitted record has end < start.
C15OverflowFatal ==
    \A c \in RANGE :
        (c < Len(info_buffer) /\ OwnOutline(c)) =>
            /\ Info(c).start = LenBefore(c)
            /\ Info(c).end = LenBefore(c) + CurveCount(c)
            /\ Info(c).end <= IndexMax
            /\ Info(c).start <= Info(c).end

\* C16: a step of the fallback pass changes only info and metrics records of
\* fallback-eligible codepoints: the curve buffer, the lengths of the info
\* and metrics buffers, every record that is not eligible and the record at
\* U+FFFD stay as they are; U+FFFD is never eligible, so every record
\* already patched equals the replacement character's pass-2 record.
C16PatchFrame ==
    /\ [][ pc = "pass3" =>
             /\ glyph_buffer' = glyph_buffer
             /\ Len(info_buffer') = Len(info_buffer)
             /\ Len(metrics_buffer') = Len(metrics_buffer)
             /\ \A c \in RANGE :
                   (~At(replace, c) \/ c = REPLACEMENT_CHARACTER) =>
                      /\ At(info_buffer', c) = At(info_buffer, c)
                      /\ At(metrics_buffer', c) = At(metrics_buffer, c) ]_vars
    /\ [](pc = "pass3" =>
             /\ ~At(replace, REPLACEMENT_CHARACTER)
             /\ \A c \in RANGE :
                   (c < i /\ At(replace, c)) =>
                      /\ At(info_buffer, c) = At(info_buffer, REPLACEMENT_CHARACTER)
                      /\ At(metrics_buffer, c)
                            = At(metrics_buffer, REPLACEMENT_CHARACTER))

C16Witness ==
    /\ pc = "pass3"
    /\ i = CharMax + 1
    /\ At(replace, 1) /\ At(replace, 4)
    /\ OwnOutline(0) /\ ~At(replace, 0)
    /\ Info(REPLACEMENT_CHARACTER).start > 0
    /\ Info(REPLACEMENT_CHARACTER).start < Info(REPLACEMENT_CHARACTER).end
    /\ Info(1) = Info(REPLACEMENT_CHARACTER)
    /\ Info(4) = Info(REPLACEMENT_CHARACTER)

(***************************************************************************)
(* Chains of curves.                                                       *)
(***************************************************************************)
RECURSIVE Chained(_, _)
\* for each curve of the outline after k events, whether it continues the
\* sub-path of the curve before it: a segment pushed it, not a move_to
Chained(p, k) ==
    IF k = 0 THEN <<>>
    ELSE LET t == Chained(p, k - 1)
         IN  CASE p[k].op = "move_to" -> Append(t, FALSE)
               [] p[k].op \in Segments -> Append(t, TRUE)
               [] p[k].op = "close" -> Front(t)
               [] OTHER -> t

\* C17: within one sub-path each curve of the outline under construction
\* starts where the curve before it ends (curve[k].p0 = curve[k-1].p2);
\* in the built outline, whose curves are reversed one by one but kept in
\* order, each curve ends where the curve before it starts
\* (curve[k].p2 = curve[k-1].p0).
C17Chain ==
    /\ pc = "outline" =>
          /\ Len(Chained(path, pos)) = Len(temp)
          /\ \A k \in 2..Len(temp) :
                Chained(path, pos)[k] => temp[k].p0 = temp[k - 1].p2
    /\ Built =>
          LET cs == map[0].outline.curves
          IN  /\ Len(Chained(path, Len(path))) = Len(cs)
              /\ \A k \in 2..Len(cs) :
                    Chained(path, Len(path))[k] => cs[k].p2 = cs[k - 1].p0

C17Witness ==
    /\ Built
    /\ path = PathTwoContours
    /\ bbox.x_min = 0 /\ bbox.x_max = 4
    /\ Len(map[0].outline.curves) = 7
    /\ Chained(path, Len(path)) = <<FALSE, TRUE, TRUE, FALSE, TRUE, TRUE, TRUE>>
    /\ map[0].outline.curves[6].p2 = map[0].outline.curves[5].p0
    /\ map[0].outline.curves[6].p2 = <<<<1, 2>>, <<0, 1>>>>
    /\ map[0].outline.curves[6].p1 # map[0].outline.curves[6].p2
    /\ map[0].outline.curves[4].p2 # map[0].outline.curves[3].p0

(***************************************************************************)
(* The stub at the end of the outline.                                     *)
(***************************************************************************)
Pushers == {"move_to", "line_to", "quad_to"}

\* the run is inside outline_glyph and its latest event pushed a curve
AfterPusher == pc = "outline" /\ pos >= 1 /\ path[pos].op \in Pushers

StubLast ==
    AfterPusher =>
        /\ temp # <<>>
        /\ Last(temp) = [p0 |-> path[pos].p, p1 |-> ZERO, p2 |-> ZERO, flags |-> 0]

CloseAfterPusher ==
    (AfterPusher /\ pos' = pos + 1 /\ path[pos'].op = "close") =>
        (pc' = "outline" /\ temp' = Front(temp))

SegmentStep == pc = "outline" /\ pos' = pos + 1 /\ path[pos'].op \in Segments

\* C18 as stated: while the latest event is move_to, line_to or quad_to the
\* last curve of the outline is a stub, a close() directly after such an
\* event does not abort, and line_to and quad_to abort only when the outline
\* is empty, no move_to having occurred.
C18NoMoveTo ==
    /\ []StubLast
    /\ [][CloseAfterPusher]_vars
    /\ [][ (SegmentStep /\ pc' = "panicked") =>
              /\ temp = <<>>
              /\ \A k \in 1..pos : path[k].op # "move_to" ]_vars

\* C18: while the latest event is move_to, line_to or quad_to the last curve
\* of the outline is a stub with p0 at the event's point, a close() directly
\* after such an event removes it and does not abort, and line_to and
\* quad_to abort exactly when the outline holds no curve, which is also the
\* case after close() has removed the only curve.
C18StubLast ==
    /\ []StubLast
    /\ [][CloseAfterPusher]_vars
    /\ [][ SegmentStep => (pc' = "panicked" <=> temp = <<>>) ]_vars

C18Witness ==
    /\ pc = "panicked"
    /\ pos = 3
    /\ Len(path) = 3
    /\ path[1].op = "move_to"
    /\ path[2].op = "close"
    /\ path[3].op = "line_to"
    /\ temp = <<>>

====
